---- MODULE Spec2Model ----
(***************************************************************************)
(* A model of src/spider.py: the Spider class, which drives a Selenium     *)
(* session to collect links, images and repeating elements of a page.      *)
(*                                                                         *)
(* Strings are sequences of tokens.  The characters URL grammar cares      *)
(* about (":", "/", "?", "#") are tokens of their own; every other token   *)
(* is a run of ordinary characters ("https", "example.com", "ref=1").      *)
(* Two strings are equal iff their token sequences are equal.              *)
(***************************************************************************)
EXTENDS Integers, Sequences, FiniteSets, TLC

\* ------------------------------------------------------------------ bounds
\* Longest list of <a> tags of a document.
MaxAnchors == 2
\* Longest list of <img> tags of a document.
MaxImgs == 3
\* Highest index at which the document may hold an element of the template.
MaxElems == 3
\* Lookups of get_elements_xpaths followed before the model stops following.
MaxLookups == 5
\* Fraction bits of the scroll multiplier (a float in the code).
MantissaBits == 3
\* Activity-signal reads and scrolls remembered by the history variables.
MaxReads == 3

\* ------------------------------------------------------------- strings
EmptyStr == <<>>
\* Python's None where a string is expected.
NoneStr == <<"None">>

Str(a, b, c, d, e) == a \o b \o c \o d \o e

IndicesOf(s, toks) == {i \in 1..Len(s) : s[i] \in toks}

\* str.find for any of the tokens: the first index, 0 when there is none.
FindAny(s, toks) ==
    IF IndicesOf(s, toks) = {} THEN 0
    ELSE CHOOSE i \in IndicesOf(s, toks) : \A j \in IndicesOf(s, toks) : i <= j

\* v named x in Op: v is evaluated once.
With(v, Op(_)) == CHOOSE res \in { Op(x) : x \in {v} } : TRUE

Drop(s, n) == SubSeq(s, n + 1, Len(s))
Take(s, n) == SubSeq(s, 1, n)

\* "sub in s" for a word of ordinary characters: it lies inside one token.
\* The tokens that hold the word "mailto".
MailtoTokens == {"mailto", "mailto-list"}
ContainsMailto(s) == IndicesOf(s, MailtoTokens) # {}

\* s.startswith("https:") or s.startswith("http:")
StartsWithHttp(s) == Len(s) >= 2 /\ s[1] \in {"https", "http"} /\ s[2] = ":"

\* ------------------------------------------------------ urllib.parse.quote
\* quote(c) of the characters of one token: "/" and unreserved characters
\* are kept, every other character is percent-encoded.
QuoteToken(t) ==
    CASE t = ":"       -> "%3A"
      [] t = "?"       -> "%3F"
      [] t = "#"       -> "%23"
      [] t = "ref=1"   -> "ref%3D1"
      [] t = "v=1"     -> "v%3D1"
      [] t = "a b"     -> "a%20b"
      [] t = "a@b.com" -> "a%40b.com"
      [] t = ","       -> "%2C"
      [] OTHER         -> t

\* "".join(quote(i) for i in url)
QuoteEach(url) == [i \in 1..Len(url) |-> QuoteToken(url[i])]

\* ------------------------------------------------------ urllib.parse
\* Tokens made of scheme characters only (letters, digits, "+", "-", ".").
SchemeWords == {"https", "http", "ftp", "mailto", "javascript", "data",
                "item", "shop", "pub", "list", "top", "mailto-list",
                "example.com", "other.org"}
\* urllib.parse.uses_relative / uses_netloc, as far as the model's schemes go.
UsesRelative == {EmptyStr, <<"http">>, <<"https">>, <<"ftp">>}
UsesNetloc == {EmptyStr, <<"http">>, <<"https">>, <<"ftp">>}

\* s.split(tok, 1) when tok occurs in s: <<before, after>>; <<s, "">> otherwise.
SplitAt(s, tok) ==
    With(FindAny(s, {tok}), LAMBDA i :
        IF i = 0 THEN <<s, EmptyStr>> ELSE <<Take(s, i - 1), Drop(s, i)>>)

\* urlsplit's scheme: the characters before the first ":", when they are
\* scheme characters: <<scheme, rest>>.
SplitScheme(url) ==
    With(FindAny(url, {":"}), LAMBDA colon :
        IF colon > 1 /\ \A i \in 1..(colon - 1) : url[i] \in SchemeWords
        THEN <<Take(url, colon - 1), Drop(url, colon)>>
        ELSE <<EmptyStr, url>>)

\* urlsplit's netloc: after "//", up to the first of "/", "?", "#":
\* <<netloc, rest>>.
SplitNetloc(rest) ==
    IF Len(rest) >= 2 /\ rest[1] = "/" /\ rest[2] = "/"
    THEN With(FindAny(Drop(rest, 2), {"/", "?", "#"}), LAMBDA delim :
            IF delim = 0 THEN <<Drop(rest, 2), EmptyStr>>
            ELSE <<SubSeq(rest, 3, delim + 1), Drop(rest, delim + 1)>>)
    ELSE <<EmptyStr, rest>>

\* urlsplit / urlparse: scheme, then netloc, then fragment, then query; the
\* rest is the path.
UrlParse(url) ==
    With(SplitScheme(url), LAMBDA a :
    With(SplitNetloc(a[2]), LAMBDA b :
    With(SplitAt(b[2], "#"), LAMBDA c :
    With(SplitAt(c[1], "?"), LAMBDA d :
        [scheme |-> a[1], netloc |-> b[1], path |-> d[1],
         query |-> d[2], fragment |-> c[2]]))))

\* urlunsplit
UrlUnparse(scheme, netloc, path, query, fragment) ==
    (IF scheme # EmptyStr THEN scheme \o <<":">> ELSE EmptyStr)
    \o (IF netloc # EmptyStr
           \/ (scheme # EmptyStr /\ scheme \in UsesNetloc
               /\ ~(Len(path) >= 2 /\ path[1] = "/" /\ path[2] = "/"))
        THEN <<"/", "/">> \o netloc
             \o (IF path # EmptyStr /\ path[1] # "/" THEN <<"/">> ELSE EmptyStr)
        ELSE EmptyStr)
    \o path
    \o (IF query # EmptyStr THEN <<"?">> \o query ELSE EmptyStr)
    \o (IF fragment # EmptyStr THEN <<"#">> \o fragment ELSE EmptyStr)

\* str.split("/"): the segments between the slashes, each a token sequence.
RECURSIVE SplitSlash(_)
SplitSlash(s) ==
    With(SplitAt(s, "/"), LAMBDA p :
        IF Len(p[1]) = Len(s) THEN <<s>> ELSE <<p[1]>> \o SplitSlash(p[2]))

\* "/".join(segments)
RECURSIVE JoinSlash(_)
JoinSlash(segs) ==
    IF Len(segs) = 0 THEN EmptyStr
    ELSE IF Len(segs) = 1 THEN segs[1]
    ELSE segs[1] \o <<"/">> \o JoinSlash(Tail(segs))

NonEmptySeg(seg) == seg # EmptyStr

\* segments[1:-1] = filter(None, segments[1:-1])
FilterMiddle(segs) ==
    IF Len(segs) <= 2 THEN segs
    ELSE <<segs[1]>> \o SelectSeq(SubSeq(segs, 2, Len(segs) - 1), NonEmptySeg)
         \o <<segs[Len(segs)]>>

\* base_parts = bpath.split('/'); if base_parts[-1] != '': del base_parts[-1]
BaseParts(bpath) ==
    With(SplitSlash(bpath), LAMBDA parts :
        IF parts[Len(parts)] # EmptyStr THEN Take(parts, Len(parts) - 1) ELSE parts)

\* The path of urljoin's result, for a reference with a path.
MergePath(bpath, path) ==
    With(JoinSlash(IF path[1] = "/" THEN SplitSlash(path)
                   ELSE FilterMiddle(BaseParts(bpath) \o SplitSlash(path))),
         LAMBDA joined : IF joined = EmptyStr THEN <<"/">> ELSE joined)

\* urljoin(base, url); dot segments do not occur in the model's inputs.
UrlJoin(base, url) ==
    IF base = EmptyStr THEN url
    ELSE IF url = EmptyStr THEN base
    ELSE
      With(UrlParse(base), LAMBDA b :
      With(UrlParse(url), LAMBDA u0 :
      With(IF u0.scheme = EmptyStr THEN b.scheme ELSE u0.scheme, LAMBDA scheme :
        IF scheme # b.scheme \/ scheme \notin UsesRelative THEN url
        ELSE IF scheme \in UsesNetloc /\ u0.netloc # EmptyStr
             THEN UrlUnparse(scheme, u0.netloc, u0.path, u0.query, u0.fragment)
        ELSE IF u0.path = EmptyStr
             THEN UrlUnparse(scheme, b.netloc, b.path,
                             IF u0.query = EmptyStr THEN b.query ELSE u0.query,
                             u0.fragment)
        ELSE UrlUnparse(scheme, b.netloc, MergePath(b.path, u0.path),
                        u0.query, u0.fragment))))

\* ------------------------------------------------------ validators.url
ValidSchemes == {<<"http">>, <<"https">>, <<"ftp">>}
DomainTokens == {"example.com", "other.org"}
\* Tokens holding a character no URL may hold unencoded (a space).
UnsafeTokens == {"a b"}

\* validators.url(value): truthy iff value is scheme://domain[/path][?query][#fragment]
\* with an accepted scheme, a domain name as host and URL-safe characters only.
ValidUrl(value) ==
    /\ value # NoneStr
    /\ value # EmptyStr
    /\ Len(value) >= 4 /\ value[2] = ":" /\ value[3] = "/" /\ value[4] = "/"
    /\ IndicesOf(value, UnsafeTokens) = {}
    /\ With(UrlParse(value), LAMBDA p :
          /\ p.scheme \in ValidSchemes
          /\ Len(p.netloc) = 1 /\ p.netloc[1] \in DomainTokens
          /\ IndicesOf(p.fragment, {"#"}) = {})

\* ------------------------------------------------------ modify_verify_url
\* The outcome of a call: the value returned, or the exception raised.
Returned(v) == [value |-> v, error |-> "none"]
Raised(e) == [value |-> EmptyStr, error |-> e]

\* "valid_href = parsed_href.scheme + '://' + parsed_href.netloc + parsed_href.path"
StripToPath(parsed_href) ==
    parsed_href.scheme \o <<":", "/", "/">> \o parsed_href.netloc \o parsed_href.path

modify_verify_url(self_root, url) ==
    IF url = NoneStr THEN Raised("TypeError")
    ELSE IF ValidUrl(url) THEN Returned(url)
    ELSE
      With(QuoteEach(url), LAMBDA clean_href :
        IF ~ValidUrl(clean_href)
        THEN With(StripToPath(UrlParse(UrlJoin(self_root, clean_href))),
                  LAMBDA valid_href :
                     IF ValidUrl(valid_href) THEN Returned(valid_href)
                     ELSE Returned(EmptyStr))
        ELSE Returned(url))

\* ------------------------------------------------------ inputs
Https == <<"https", ":">>
ExampleCom == <<"/", "/", "example.com">>
OtherOrg == <<"/", "/", "other.org">>

Roots == { EmptyStr,
           Https \o ExampleCom \o <<"/", "shop">>,
           Https \o ExampleCom,
           <<"ftp", ":">> \o OtherOrg \o <<"/", "pub", "/", "?", "v=1">> }

SchemeParts == {EmptyStr, Https, <<"http", ":">>, <<"ftp", ":">>,
                <<"mailto", ":">>, <<"javascript", ":">>}
AuthorityParts == {EmptyStr, ExampleCom, OtherOrg}
PathParts == {EmptyStr, <<"/", "item">>, <<"item">>, <<"/", "a b">>,
              <<"a@b.com">>, <<"/", "mailto-list">>}
QueryParts == {EmptyStr, <<"?", "ref=1">>}
FragmentParts == {EmptyStr, <<"#", "top">>}

\* The href strings of the model: every combination of the parts in which a
\* host is followed by nothing or by "/".
RawHrefs ==
    { Str(s, a, p, q, f) : s \in SchemeParts, a \in AuthorityParts,
                           p \in {x \in PathParts : x = EmptyStr \/ x[1] = "/"},
                           q \in QueryParts, f \in FragmentParts }
    \cup
    { Str(s, EmptyStr, p, q, f) : s \in SchemeParts, p \in PathParts,
                                  q \in QueryParts, f \in FragmentParts }

\* The documents (lists of <a> hrefs, None for a tag without href) handed to
\* the link extractors: every list of at most MaxAnchors of these hrefs.
SoupHrefs == { NoneStr, EmptyStr,
               <<"/", "item", "?", "ref=1", "#", "top">>,
               <<"mailto", ":", "a@b.com">>,
               <<"javascript", ":">>,
               Https \o ExampleCom \o <<"/", "item", "?", "ref=1">>,
               Https \o OtherOrg \o <<"/", "mailto-list">>,
               <<"http", ":">> \o OtherOrg,
               <<"ftp", ":">> \o OtherOrg \o <<"/", "item">> }

SeqsUpTo(S, n) == UNION { [1..k -> S] : k \in 0..n }

Soups == SeqsUpTo(SoupHrefs, MaxAnchors)

\* ------------------------------------------------------ link extraction
\* get_all_sublinks_from_soup: the hrefs that are neither None nor "", each
\* cleaned by modify_verify_url, kept unless empty or holding "mailto".
get_all_sublinks_from_soup(self_root, soup) ==
    LET hrefs == { soup[i] : i \in { j \in 1..Len(soup) :
                                       soup[j] # EmptyStr /\ soup[j] # NoneStr } }
        cleaned == { modify_verify_url(self_root, h).value : h \in hrefs }
    IN { c \in cleaned : c # EmptyStr /\ ~ContainsMailto(c) }

\* KeepLink without the startswith test.
KeepLinkUnfiltered(l) == TRUE

\* The filter of get_all_sublinks_selenium_by_soup over the links of the soup.
KeepLink(l) == StartsWithHttp(l)

sublinks_by_soup(self_root, source) ==
    { l \in get_all_sublinks_from_soup(self_root, source) : KeepLink(l) }

\* WebElement.get_attribute("href"): the browser resolves the attribute
\* against the document's URL.
ResolvedHref(doc_url, href) == UrlJoin(doc_url, href)

\* get_all_sublinks_selenium_by_xpath: the elements of //a[@href], their
\* resolved href kept when it starts with "https:" or "http:".
sublinks_by_xpath(doc_url, source) ==
    LET href_elements == { i \in 1..Len(source) : source[i] # NoneStr }
        things == { ResolvedHref(doc_url, source[i]) : i \in href_elements }
    IN { t \in things : StartsWithHttp(t) }

\* ------------------------------------------------------ image extraction
NoneAttr == "None"
Alts == {NoneAttr, "logo", "photo"}
Srcs == {NoneAttr, "/a.png", "/b.png"}
ImgTags == [alt : Alts, src : Srcs]

\* NotSeen without the membership test.
NotSeenUnchecked(src, temp_links) == TRUE

\* "a_tag.get('src') not in temp_links"
NotSeen(src, temp_links) == \A k \in 1..Len(temp_links) : temp_links[k] # src

\* The loop of get_all_images_from_soup from tag i on.
RECURSIVE ImagesLoop(_, _, _, _)
ImagesLoop(tags, i, temp_links, temp_set) ==
    IF i > Len(tags) THEN temp_set
    ELSE IF NotSeen(tags[i].src, temp_links)
         THEN ImagesLoop(tags, i + 1, Append(temp_links, tags[i].src),
                         temp_set \cup {<<tags[i].alt, tags[i].src>>})
         ELSE ImagesLoop(tags, i + 1, temp_links, temp_set)

get_all_images_from_soup(tags) == ImagesLoop(tags, 1, <<>>, {})

\* ------------------------------------------------------ the session
\* The URL a fresh Chrome session shows, and the pages the model visits.
DataUrl == <<"data", ":", ",">>
ShopPage == Https \o ExampleCom \o <<"/", "shop">>
ListPage == Https \o OtherOrg \o <<"/", "list">>
WebPages == {ShopPage, ListPage}
ErrorDoc == <<"chrome-error">>

\* The <a> hrefs of the document a URL serves.
PageOf(doc) ==
    IF doc = ShopPage
    THEN << <<"/", "item", "?", "ref=1", "#", "top">>, <<"mailto", ":", "a@b.com">> >>
    ELSE IF doc = ListPage THEN << Https \o ExampleCom \o <<"/", "shop">> >>
    ELSE <<>>

Signals == {11, 12}
Heights == {4, 8}
Unit == 2 ^ MantissaBits

XPathLi == <<"//ul/li", "[INDEX]", "/a">>
XPathNoIndex == <<"//ul/li/a">>
XPaths == {XPathLi, XPathNoIndex}

\* The documents get_elements_xpaths meets: the sets of indices at which the
\* document holds an element of the template.
Doms(xp) == IF xp = XPathLi THEN SUBSET (1..MaxElems) ELSE {{}}

\* xpath.split('[INDEX]')
RECURSIVE SplitIndex(_)
SplitIndex(xp) ==
    LET i == FindAny(xp, {"[INDEX]"})
    IN IF i = 0 THEN <<xp>> ELSE <<Take(xp, i - 1)>> \o SplitIndex(Drop(xp, i))

\* A WebElement, named by the path that located it; the two other values a
\* local variable holding one may have.
Handle(prefix, i, suffix) == [kind |-> "element", prefix |-> prefix, index |-> i, suffix |-> suffix]
Unbound == [kind |-> "unbound", prefix |-> <<>>, index |-> 0, suffix |-> <<>>]
NoneElement == [kind |-> "None", prefix |-> <<>>, index |-> 0, suffix |-> <<>>]

VARIABLES
    root,               \* Spider.root
    current_url,        \* selenium_driver.current_url
    document,           \* the document the session holds (the URL it came from)
    page_source,        \* its <a> hrefs
    op,                 \* the method running: "idle", "enum" or "scroll"
    last_call,          \* the method called last
    error,              \* the exception the last call raised to its caller
    links,              \* the set the last link extractor returned
    nav_last, nav_prev, \* the last call of __optimize_selenium_driver__; the one before
    xpath, dom_matches, \* get_elements_xpaths: argument; indices the document holds
    index, element, list_of_elements,
    lookups,            \* the indices looked up so far, in order
    r, counter, multiplier, start_y, scroll_dist,   \* _scroll_down_pages
    reads, scrolls,     \* the last MaxReads signal reads; the scrolls between them
    pure_pc,            \* "ready" / "done" for the two pure functions below
    url_in, url_out,    \* modify_verify_url: argument, outcome
    imgs, images_out    \* get_all_images_from_soup: argument, result

driverVars == <<current_url, document, page_source>>
navVars == <<nav_prev, nav_last>>
callVars == <<op, last_call, error, links>>
enumVars == <<xpath, dom_matches, index, element, list_of_elements, lookups>>
scrollVars == <<r, counter, multiplier, start_y, scroll_dist, reads, scrolls>>
pureVars == <<pure_pc, url_in, url_out, imgs, images_out>>
vars == <<root, driverVars, navVars, callVars, enumVars, scrollVars, pureVars>>

Pending == [value |-> EmptyStr, error |-> "pending"]

\* No call of __optimize_selenium_driver__ yet.
NoNav == [called |-> FALSE, requested |-> EmptyStr, before |-> EmptyStr,
          after |-> EmptyStr, issued |-> FALSE, ok |-> TRUE, held |-> TRUE]

NoPrev == [called |-> FALSE, requested |-> EmptyStr, after |-> EmptyStr, ok |-> TRUE]

\* ------------------------------------------------------ initial states
InitDriver ==
    /\ current_url = DataUrl
    /\ document = DataUrl
    /\ page_source = <<>>
    /\ nav_prev = NoPrev
    /\ nav_last = NoNav

InitCall ==
    /\ op = "idle"
    /\ last_call = "none"
    /\ error = "none"
    /\ links = {}

InitEnum ==
    /\ xpath = XPathLi
    /\ dom_matches = {}
    /\ index = 1
    /\ element = Unbound
    /\ list_of_elements = <<>>
    /\ lookups = <<>>

InitScroll ==
    /\ r = 0
    /\ counter = Unit
    /\ multiplier = 0
    /\ start_y = 0
    /\ scroll_dist = 0
    /\ reads = <<>>
    /\ scrolls = 0

InitPure ==
    /\ pure_pc = "idle"
    /\ url_in = EmptyStr
    /\ url_out = Pending
    /\ imgs = <<>>
    /\ images_out = {}

\* A Spider right after __init__.
Init ==
    /\ root = ShopPage
    /\ InitDriver /\ InitCall /\ InitEnum /\ InitScroll /\ InitPure

\* modify_verify_url on every root and href of the model.
InitUrl ==
    /\ root \in Roots
    /\ InitDriver /\ InitCall /\ InitEnum /\ InitScroll
    /\ pure_pc = "ready"
    /\ url_in \in RawHrefs \cup {NoneStr}
    /\ url_out = Pending
    /\ imgs = <<>>
    /\ images_out = {}

\* get_all_images_from_soup on every list of at most MaxImgs <img> tags.
InitImages ==
    /\ root = EmptyStr
    /\ InitDriver /\ InitCall /\ InitEnum /\ InitScroll
    /\ pure_pc = "ready"
    /\ url_in = EmptyStr
    /\ url_out = Pending
    /\ imgs \in SeqsUpTo(ImgTags, MaxImgs)
    /\ images_out = {}

\* A session that has a page loaded, holding any document of Soups.
InitLinks ==
    /\ root \in Roots
    /\ current_url = ShopPage
    /\ document = ShopPage
    /\ page_source \in Soups
    /\ nav_prev = NoPrev
    /\ nav_last = NoNav
    /\ InitCall /\ InitEnum /\ InitScroll /\ InitPure

\* ------------------------------------------------------ pure functions
ModifyVerifyUrl ==
    /\ pure_pc = "ready"
    /\ pure_pc' = "done"
    /\ url_out' = modify_verify_url(root, url_in)
    /\ UNCHANGED <<root, driverVars, navVars, callVars, enumVars, scrollVars,
                   url_in, imgs, images_out>>

GetAllImages ==
    /\ pure_pc = "ready"
    /\ pure_pc' = "done"
    /\ images_out' = get_all_images_from_soup(imgs)
    /\ UNCHANGED <<root, driverVars, navVars, callVars, enumVars, scrollVars,
                   url_in, url_out, imgs>>

\* ------------------------------------------------------ navigation
\* What driver.get(webpage) may do: load a page (the browser may land on
\* another URL than the one asked for), or fail, either before it left the
\* old document or on an error page at the new URL.
GetOutcomes(webpage) ==
    { [ok |-> TRUE, landed |-> l, doc |-> l, src |-> PageOf(l)] : l \in WebPages }
    \cup
    { [ok |-> FALSE, landed |-> current_url, doc |-> document, src |-> page_source],
      [ok |-> FALSE, landed |-> webpage, doc |-> ErrorDoc, src |-> <<>>] }

\* No get is in question: the method was called without a webpage.
NoGet == [ok |-> TRUE, landed |-> EmptyStr, doc |-> EmptyStr, src |-> <<>>]

\* NeedsGet without the comparison: every call loads the page.
NeedsGetAlways(webpage) == TRUE

\* "if self.selenium_driver.current_url != webpage_url"
NeedsGet(webpage) == current_url # webpage

\* ExceptReturn re-raising what it caught.
ExceptReraise(ex) == ex

\* "except Exception as ex: return ex": what reaches the caller as a raised
\* exception when driver.get raised ex.
ExceptReturn(ex) == "none"

\* __optimize_selenium_driver__(webpage) when driver.get would end as e: the
\* session it leaves, whether it issued the get, and what it raises.
optimize_selenium_driver(webpage, e) ==
    IF NeedsGet(webpage)
    THEN [url |-> e.landed, doc |-> e.doc, src |-> e.src, issued |-> TRUE,
          ok |-> e.ok,
          raised |-> IF e.ok THEN "none" ELSE ExceptReturn("WebDriverException")]
    ELSE [url |-> current_url, doc |-> document, src |-> page_source,
          issued |-> FALSE, ok |-> TRUE, raised |-> "none"]

\* The session and the call history after that call.
Driver(webpage, o) ==
    /\ current_url' = o.url
    /\ document' = o.doc
    /\ page_source' = o.src
    /\ nav_prev' = [called |-> nav_last.called, requested |-> nav_last.requested,
                    after |-> nav_last.after, ok |-> nav_last.ok]
    /\ nav_last' = [called |-> TRUE, requested |-> webpage, before |-> current_url,
                    after |-> o.url, issued |-> o.issued, ok |-> o.ok,
                    held |-> (o.url = current_url /\ o.doc = document
                              /\ o.src = page_source)]

ResetEnum ==
    /\ xpath' = XPathLi
    /\ dom_matches' = {}
    /\ index' = 1
    /\ element' = Unbound
    /\ list_of_elements' = <<>>
    /\ lookups' = <<>>

ResetScroll ==
    /\ r' = 0
    /\ counter' = Unit
    /\ multiplier' = 0
    /\ start_y' = 0
    /\ scroll_dist' = 0
    /\ reads' = <<>>
    /\ scrolls' = 0

\* ------------------------------------------------------ link extractors
GetAllSublinksFromSoup ==
    /\ op = "idle"
    /\ last_call' = "from_soup"
    /\ error' = "none"
    /\ links' = get_all_sublinks_from_soup(root, page_source)
    /\ ResetEnum /\ ResetScroll
    /\ UNCHANGED <<root, op, driverVars, navVars, pureVars>>

GetAllSublinksSeleniumBySoup(webpage, e) ==
    /\ op = "idle"
    /\ last_call' = "by_soup"
    /\ IF webpage = EmptyStr
       THEN /\ error' = "none"
            /\ links' = sublinks_by_soup(root, page_source)
            /\ UNCHANGED <<driverVars, navVars>>
       ELSE LET o == optimize_selenium_driver(webpage, e)
            IN /\ Driver(webpage, o)
               /\ error' = o.raised
               /\ links' = IF o.raised # "none" THEN {}
                           ELSE sublinks_by_soup(root, o.src)
    /\ ResetEnum /\ ResetScroll
    /\ UNCHANGED <<root, op, pureVars>>

GetAllSublinksSeleniumByXPath(webpage, e) ==
    /\ op = "idle"
    /\ last_call' = "by_xpath"
    /\ IF webpage = EmptyStr
       THEN /\ error' = "none"
            /\ links' = sublinks_by_xpath(current_url, page_source)
            /\ UNCHANGED <<driverVars, navVars>>
       ELSE LET o == optimize_selenium_driver(webpage, e)
            IN /\ Driver(webpage, o)
               /\ error' = o.raised
               /\ links' = IF o.raised # "none" THEN {}
                           ELSE sublinks_by_xpath(o.url, o.src)
    /\ ResetEnum /\ ResetScroll
    /\ UNCHANGED <<root, op, pureVars>>

\* ------------------------------------------------------ get_elements_xpaths
\* The lines before the loop: split the template, load the page, index = 1.
\* dom is what the loaded document holds: the indices with an element.
GetElementsXPaths(webpage, xp, dom, e) ==
    /\ op = "idle"
    /\ last_call' = "enum"
    /\ LET o == optimize_selenium_driver(webpage, e)
       IN /\ Driver(webpage, o)
          /\ error' = o.raised
          /\ op' = IF o.raised # "none" THEN "idle" ELSE "enum"
    /\ xpath' = xp
    /\ dom_matches' = dom
    /\ index' = 1
    /\ element' = Unbound
    /\ list_of_elements' = <<>>
    /\ lookups' = <<>>
    /\ ResetScroll
    /\ UNCHANGED <<root, links, pureVars>>

\* find_element inside try/except NoSuchElementException: pass: the local
\* variable element afterwards.
AfterLookup(found, handle, old) == IF found THEN handle ELSE old

\* One turn of the while True loop.
EnumStep ==
    /\ op = "enum"
    /\ Len(lookups) < MaxLookups
    /\ LET path_of_elements == SplitIndex(xpath)
       IN IF Len(path_of_elements) < 2
          THEN /\ error' = "IndexError"
               /\ op' = "idle"
               /\ UNCHANGED <<index, element, list_of_elements, lookups>>
          ELSE LET found == index \in dom_matches
                   handle == Handle(path_of_elements[1], index, path_of_elements[2])
                   element1 == AfterLookup(found, handle, element)
               IN /\ lookups' = Append(lookups, index)
                  /\ element' = element1
                  /\ IF element1 = Unbound
                     THEN /\ error' = "UnboundLocalError"
                          /\ op' = "idle"
                          /\ UNCHANGED <<index, list_of_elements>>
                     ELSE IF element1 # NoneElement
                     THEN /\ list_of_elements' = Append(list_of_elements, element1)
                          /\ index' = index + 1
                          /\ UNCHANGED <<op, error>>
                     ELSE /\ op' = "idle"
                          /\ UNCHANGED <<index, list_of_elements, error>>
    /\ UNCHANGED <<root, last_call, links, xpath, dom_matches, driverVars,
                   navVars, scrollVars, pureVars>>

\* ------------------------------------------------------ _scroll_down_pages
\* The history variables keep the last MaxReads reads and the scrolls
\* between them.
Remember(log, x, n) == IF Len(log) < n THEN Append(log, x) ELSE Append(Tail(log), x)

\* Converged taking "the count did not grow" for "the count is the same".
ConvergedNoGrowth(q, last) == q <= last

\* "if q == r: break"
Converged(q, last) == q = last

\* The lines before the loop.  The scroll height read there is overwritten
\* before its first use.  The multiplier is kept in units of 2^-MantissaBits.
ScrollDownPages(webpage, e, s0) ==
    /\ op = "idle"
    /\ last_call' = "scroll"
    /\ LET o == optimize_selenium_driver(webpage, e)
       IN /\ Driver(webpage, o)
          /\ error' = o.raised
          /\ op' = IF o.raised # "none" THEN "idle" ELSE "scroll"
    /\ start_y' = 0
    /\ r' = s0
    /\ counter' = Unit
    /\ multiplier' = 0
    /\ scroll_dist' = 0
    /\ reads' = <<s0>>
    /\ scrolls' = 0
    /\ ResetEnum
    /\ UNCHANGED <<root, links, pureVars>>

\* One turn of the while True loop: the page is h high and the signal read
\* after the scroll is q.
ScrollStep(h, q) ==
    /\ op = "scroll"
    /\ counter' = counter \div 2
    /\ multiplier' = multiplier + counter'
    /\ scroll_dist' = h * multiplier'
    /\ scrolls' = IF scrolls < MaxReads - 1 THEN scrolls + 1 ELSE scrolls
    /\ reads' = Remember(reads, q, MaxReads)
    /\ IF Converged(q, r)
       THEN /\ op' = "idle"
            /\ UNCHANGED <<r, start_y>>
       ELSE /\ r' = q
            /\ start_y' = scroll_dist'
            /\ UNCHANGED op
    /\ UNCHANGED <<root, last_call, error, links, driverVars, navVars, enumVars,
                   pureVars>>

\* ------------------------------------------------------ specifications
Next ==
    \/ \E w \in WebPages : \E e \in GetOutcomes(w) :
           GetAllSublinksSeleniumBySoup(w, e)
    \/ GetAllSublinksSeleniumBySoup(EmptyStr, NoGet)
    \/ \E w \in WebPages : \E e \in GetOutcomes(w) :
           GetAllSublinksSeleniumByXPath(w, e)
    \/ GetAllSublinksSeleniumByXPath(EmptyStr, NoGet)
    \/ \E w \in WebPages, xp \in XPaths : \E dom \in Doms(xp), e \in GetOutcomes(w) :
           GetElementsXPaths(w, xp, dom, e)
    \/ EnumStep
    \/ \E w \in WebPages, s0 \in Signals : \E e \in GetOutcomes(w) :
           ScrollDownPages(w, e, s0)
    \/ \E h \in Heights, q \in Signals : ScrollStep(h, q)

\* A Spider session: any sequence of calls of its methods.
Spec == Init /\ [][Next]_vars

NextScroll ==
    \/ \E w \in WebPages, s0 \in Signals : \E e \in GetOutcomes(w) :
           ScrollDownPages(w, e, s0)
    \/ \E h \in Heights, q \in Signals : ScrollStep(h, q)

\* Calls of _scroll_down_pages alone.  The loop is running code: a turn that
\* can be taken is taken.
SpecScroll ==
    /\ Init /\ [][NextScroll]_vars
    /\ WF_vars(\E h \in Heights, q \in Signals : ScrollStep(h, q))

NextLinks ==
    \/ GetAllSublinksFromSoup
    \/ GetAllSublinksSeleniumBySoup(EmptyStr, NoGet)
    \/ GetAllSublinksSeleniumByXPath(EmptyStr, NoGet)

\* The three link extractors on a loaded page.
SpecLinks == InitLinks /\ [][NextLinks]_vars

SpecUrl == InitUrl /\ [][ModifyVerifyUrl]_vars

SpecImages == InitImages /\ [][GetAllImages]_vars

\* ------------------------------------------------------ claims
\* The handles get_elements_xpaths is to return for a document holding
\* elements at 1..n.
HandlesTo(n) ==
    [i \in 1..n |-> Handle(SplitIndex(xpath)[1], i, SplitIndex(xpath)[2])]

\* The number of contiguous indices from 1 the document holds.
ContiguousCount ==
    CHOOSE n \in 0..MaxElems : (\A i \in 1..n : i \in dom_matches)
                               /\ (n + 1) \notin dom_matches

\* C1: for a document holding elements exactly at 1..N, or none at index 1,
\* get_elements_xpaths raises nothing, collects the handles of 1..N in order,
\* none twice, and returns exactly those.
C1_EnumeratesContiguous ==
    (/\ last_call = "enum"
     /\ xpath = XPathLi
     /\ (dom_matches = 1..ContiguousCount \/ 1 \notin dom_matches))
    => /\ error = "none"
       /\ Len(list_of_elements) <= ContiguousCount
       /\ list_of_elements = HandlesTo(Len(list_of_elements))
       /\ (op = "idle" => Len(list_of_elements) = ContiguousCount)

\* C2: the first lookup miss of get_elements_xpaths ends the call normally:
\* no exception, no lookup after the miss, and the handles collected before
\* the miss are what is returned.
C2_MissEndsNormally ==
    (/\ last_call = "enum"
     /\ xpath = XPathLi
     /\ \E k \in 1..Len(lookups) : lookups[k] \notin dom_matches)
    => /\ error = "none"
       /\ op = "idle"
       /\ \A k \in 1..(Len(lookups) - 1) : lookups[k] \in dom_matches
       /\ list_of_elements = HandlesTo(Len(lookups) - 1)

\* C3: _scroll_down_pages scrolls once before every read but the first; while
\* it runs, every two consecutive reads differ and lastSignal is the latest
\* read; it has returned exactly when the latest two reads are equal, all
\* earlier neighbours being different; on reads [12, 12] it has returned after
\* one scroll.
C3_StopsAtFirstEqualReads ==
    (last_call = "scroll" /\ error = "none")
    => /\ Len(reads) >= 1
       /\ scrolls = Len(reads) - 1
       /\ op = "scroll" => /\ r = reads[Len(reads)]
                           /\ \A i \in 2..Len(reads) : reads[i] # reads[i - 1]
       /\ op = "idle" => /\ Len(reads) >= 2
                         /\ reads[Len(reads)] = reads[Len(reads) - 1]
                         /\ \A i \in 2..(Len(reads) - 1) : reads[i] # reads[i - 1]
       /\ reads = <<12, 12>> => (op = "idle" /\ scrolls = 1)

\* The loop has stopped on reads [12, 12] after its one scroll.
C3_Witness ==
    last_call = "scroll" /\ op = "idle" /\ reads = <<12, 12>> /\ scrolls = 1

\* C4: every call of _scroll_down_pages returns, whatever the page does.
C4_ScrollTerminates == (op = "scroll") ~> (op = "idle")

\* C5: modify_verify_url returns "" for the href "" and for None, whatever the
\* root, and raises nothing.
C5_EmptyOrNoneIsAbsent ==
    (pure_pc = "done" /\ url_in \in {EmptyStr, NoneStr})
    => url_out = Returned(EmptyStr)

\* The tokens a query or fragment of the model's hrefs is made of, as
\* written and percent-encoded.
QueryFragmentTokens == {"?", "#", "%3F", "%23", "ref=1", "ref%3D1", "top"}

\* C6: a result of modify_verify_url other than "" holds no query and no
\* fragment: a well-formed absolute URL comes back stripped to
\* scheme://host/path, and nothing of the query or fragment of a relative
\* href is left in the result.
C6_QueryAndFragmentStripped ==
    (pure_pc = "done" /\ url_out.error = "none" /\ url_out.value # EmptyStr)
    => /\ IndicesOf(url_out.value, {"?", "#"}) = {}
       /\ ValidUrl(url_in) => url_out.value = StripToPath(UrlParse(url_in))
       /\ (~ValidUrl(url_in) /\ url_in # EmptyStr)
            => IndicesOf(url_out.value, QueryFragmentTokens) = {}

\* An href with a scheme other than http and https.
OtherScheme(h) ==
    /\ UrlParse(h).scheme # EmptyStr
    /\ ~StartsWithHttp(h)

IsAbsent(h) == h = NoneStr \/ h = EmptyStr

\* The anchors C7 says contribute nothing to the tree extractors: no href, an
\* empty href, an href holding "mailto", a valid URL of another scheme than
\* http(s).
C7_Excluded(h) ==
    IsAbsent(h) \/ ContainsMailto(h) \/ (ValidUrl(h) /\ ~StartsWithHttp(h))
C7_Contributes(h) == ~C7_Excluded(h)

NotAbsentNorMailto(h) == ~IsAbsent(h) /\ ~ContainsMailto(h)
HasHrefHttpOrRelative(h) == h # NoneStr /\ ~OtherScheme(h)

FirstWithSrc(s) ==
    CHOOSE i \in 1..Len(imgs) : imgs[i].src = s /\ \A j \in 1..(i - 1) : imgs[j].src # s

\* C8: get_all_images_from_soup returns one (alt, src) pair for every src of
\* the document, with the alt of the first tag that has the src.
C8_OneEntryPerSrc ==
    pure_pc = "done"
    => /\ images_out = { <<imgs[FirstWithSrc(s)].alt, s>> :
                           s \in { imgs[i].src : i \in 1..Len(imgs) } }
       /\ Cardinality(images_out) = Cardinality({ imgs[i].src : i \in 1..Len(imgs) })

\* Two tags with one src and different alts gave one pair.
C8_Witness ==
    /\ pure_pc = "done"
    /\ Len(imgs) >= 2
    /\ imgs[1].src = imgs[2].src
    /\ imgs[1].alt # imgs[2].alt
    /\ images_out = {<<imgs[1].alt, imgs[1].src>>}

\* C9: a call of __optimize_selenium_driver__ issues driver.get exactly when
\* the URL asked for differs from the session's URL at the call; a call that
\* issues none leaves URL and document as they were; nothing else moves the
\* session's URL; so a request for the URL the call before loaded and left the
\* session on issues no second load.
C9_NavigateIffUrlDiffers ==
    /\ nav_last.called
         => /\ nav_last.issued <=> nav_last.requested # nav_last.before
            /\ ~nav_last.issued => nav_last.held
            /\ current_url = nav_last.after
    /\ nav_prev.called => nav_last.before = nav_prev.after
    /\ (/\ nav_prev.called /\ nav_prev.ok
        /\ nav_prev.after = nav_prev.requested
        /\ nav_last.requested = nav_prev.requested)
         => ~nav_last.issued

\* Two requests in a row for one URL, the first loaded, the second not.
C9_Witness ==
    /\ nav_prev.called /\ nav_prev.ok
    /\ nav_prev.after = nav_prev.requested
    /\ nav_last.called
    /\ nav_last.requested = nav_prev.requested
    /\ ~nav_last.issued /\ nav_last.held

====
